---- MODULE Spec2Model ----
(***************************************************************************)
(* The frame loop of the rustycs macroquad demo (src/src/main.rs), its     *)
(* SimulationState (src/src/sim_tracker.rs), the UserController            *)
(* (src/src/controller.rs) and the BodySpawner (src/src/rustycs_utility.rs)*)
(*                                                                         *)
(* Time is a discrete monotonic clock `now`; one clock unit is 50 ms, so   *)
(* Instant::now() is `now` and x.elapsed().as_secs_f32() is `now - x`.     *)
(* All Instant::now() readings of one loop iteration return the same       *)
(* value; the clock advances in next_frame().await.                        *)
(***************************************************************************)
EXTENDS Integers, Sequences, FiniteSets, TLC

\* ------------------------------------------------------------ bounds
\* the clock stops the exploration at MaxTime
MaxTime == 10
\* the largest target count of a Single spawner
MaxAmount == 3
\* the longest authored pipeline
MaxPipeline == 3
\* how many keys the user holds at once
MaxHeld == 2

\* the time a long run of a scene lasts, in clock units
LongRun == 260

\* ------------------------------------------------------------ program constants
\* clock units per second (one unit = 50 ms)
ClockHz == 20
\* SimulationState::default, in clock units
debug_timeout == 5
spawn_timeout == 3
pause_timeout == 5
update_timeout == 5
\* 1/64 s (default tick_timeout), 1/256 s (world.get_delta_time() at TICK_RATE)
\* and 1/120 s (sampling_rate) are shorter than one clock unit: on this clock
\* `elapsed >= timeout` holds for them exactly when one unit has elapsed
tick_timeout == 1
delta_time == 1
sampling_rate == 1

\* key bindings (controller.rs)
MOVE_CAMERA_UP == "W"
MOVE_CAMERA_DOWN == "S"
MOVE_CAMERA_LEFT == "A"
MOVE_CAMERA_RIGHT == "D"
ZOOM_CAMERA_IN == "Up"
ZOOM_CAMERA_OUT == "Down"
RESET_CAMERA_POS == "R"
SPAWN_CIRCLE == "Key1"
SPAWN_AABB == "Key2"
SPAWN_OBB == "Key3"
SPAWN_POLYGON == "Key4"
SPAWN_ATTRACTOR == "Key5"
TOGGLE_TEXT == "T"
OPEN_MENU_AND_PAUSE == "Escape"
TOGGLE_HITBOXES == "H"
TOGGLE_COLLISION_POINTS == "C"
TOGGLE_GRID == "G"
WORLD_UPDATE == "U"

\* the actions with WORLD_UPDATE handled before the spawns
user_actions_update_first ==
    << MOVE_CAMERA_UP, MOVE_CAMERA_DOWN, MOVE_CAMERA_LEFT, MOVE_CAMERA_RIGHT,
       ZOOM_CAMERA_IN, ZOOM_CAMERA_OUT, WORLD_UPDATE,
       SPAWN_CIRCLE, SPAWN_AABB, SPAWN_OBB, SPAWN_POLYGON, SPAWN_ATTRACTOR,
       TOGGLE_TEXT, TOGGLE_GRID, TOGGLE_HITBOXES, TOGGLE_COLLISION_POINTS,
       RESET_CAMERA_POS >>

\* UserController::new: the order in which the actions are detected and handled
user_actions ==
    << MOVE_CAMERA_UP, MOVE_CAMERA_DOWN, MOVE_CAMERA_LEFT, MOVE_CAMERA_RIGHT,
       ZOOM_CAMERA_IN, ZOOM_CAMERA_OUT,
       SPAWN_CIRCLE, SPAWN_AABB, SPAWN_OBB, SPAWN_POLYGON, SPAWN_ATTRACTOR,
       TOGGLE_TEXT, TOGGLE_GRID, TOGGLE_HITBOXES, TOGGLE_COLLISION_POINTS,
       WORLD_UPDATE, RESET_CAMERA_POS >>

VARIABLES
    now,         \* the monotonic clock
    pc,          \* the loop's position: "step", "spawners", "pause", "detect",
                 \* "handle", "render", "next_frame", or "panicked"
    state,       \* SimulationState
    controller,  \* UserController: active_actions, sampling_instant
    world,       \* the World collaborator: bodies, attractors, last_update_duration, zoom
    spawners,    \* Vec<BodySpawner>
    offset_x,    \* camera offset, in units of scroll_speed
    offset_y,
    keyboard,    \* the keys the user touches in this run (never changes)
    obs          \* history of what the loop did (not program state)

vars == << now, pc, state, controller, world, spawners, offset_x, offset_y,
           keyboard, obs >>

Min(a, b) == IF a <= b THEN a ELSE b
Max(a, b) == IF a >= b THEN a ELSE b

\* ------------------------------------------------------------ sim_tracker.rs
\* a toggle that shows but never hides
ShowDebug_toggle_stuck(v) == "Visible"

ShowDebug_toggle(v) == IF v = "Visible" THEN "Hidden" ELSE "Visible"

SimulationMode_toggle(m) == IF m = "Running" THEN "Paused" ELSE "Running"

\* a default state whose cooldowns have all elapsed at construction
SimulationState_default_open ==
    [ debug_information |-> "Visible",
      collision_points  |-> "Hidden",
      hitboxes          |-> "Hidden",
      debug_grid        |-> "Hidden",
      simulation        |-> "Running",
      debug_instant     |-> now - debug_timeout,
      debug_timeout     |-> debug_timeout,
      spawn_instant     |-> now - spawn_timeout,
      spawn_timeout     |-> spawn_timeout,
      tick_instant      |-> now - tick_timeout,
      tick_timeout      |-> tick_timeout,
      pause_instant     |-> now - pause_timeout,
      pause_timeout     |-> pause_timeout,
      update_instant    |-> now - update_timeout,
      update_timeout    |-> update_timeout,
      nr_of_updates     |-> 0,
      max_update_duration |-> 0 ]

SimulationState_default ==
    [ debug_information |-> "Visible",
      collision_points  |-> "Hidden",
      hitboxes          |-> "Hidden",
      debug_grid        |-> "Hidden",
      simulation        |-> "Running",
      debug_instant     |-> now,
      debug_timeout     |-> debug_timeout,
      spawn_instant     |-> now,
      spawn_timeout     |-> spawn_timeout,
      tick_instant      |-> now,
      tick_timeout      |-> tick_timeout,
      pause_instant     |-> now,
      pause_timeout     |-> pause_timeout,
      update_instant    |-> now,
      update_timeout    |-> update_timeout,
      nr_of_updates     |-> 0,
      max_update_duration |-> 0 ]

\* SimulationState::new dropping its argument
SimulationState_new_ignoring(tt) == SimulationState_default

SimulationState_new(tt) == [SimulationState_default EXCEPT !.tick_timeout = tt]

\* is_pausable reading the debug timer instead of the pause timer
is_pausable_wrong_timer(s) == now - s.debug_instant >= s.pause_timeout

is_pausable(s) == now - s.pause_instant >= s.pause_timeout

is_spawnable(s) == now - s.spawn_instant >= s.spawn_timeout

debug_toggable(s) == now - s.debug_instant >= s.debug_timeout

update_required(s) == now - s.tick_instant >= s.tick_timeout

\* atomic_update_allowed reading the debug timer instead of the update timer
atomic_update_allowed_wrong_timer(s) == now - s.debug_instant >= s.update_timeout

atomic_update_allowed(s) == now - s.update_instant >= s.update_timeout

\* ------------------------------------------------------------ history
\* The gates whose successes are recorded: the five cooldowns of the state
\* ("spawn" records every user action that took effect behind the spawn gate,
\* "user_spawn" the user-requested spawns alone).
Gates == {"pause", "update", "debug", "spawn", "user_spawn", "tick"}

\* the interval of each gate (SimulationState::default, main.rs 57)
Interval(g) ==
    CASE g = "pause" -> pause_timeout
      [] g = "update" -> update_timeout
      [] g = "debug" -> debug_timeout
      [] g \in {"spawn", "user_spawn"} -> spawn_timeout
      [] g = "tick" -> delta_time

\* A stopwatch that is read only below its limit: the time since an event,
\* or the limit when the event is that old or never happened.
Elapse(since, dt, limit) == Min(since + dt, limit)

\* what the loop logs when an action behind gate g takes effect
GateEvents(g) ==
    CASE g = "pause" -> {"toggle_pause"}
      [] g = "update" -> {"manual_update"}
      [] g = "debug" -> {"toggle_debug"}
      [] g = "user_spawn" -> {"user_add_body", "user_add_attractor"}
      [] g = "spawn" -> {"user_add_body", "user_add_attractor", "camera",
                         "manual_update", "toggle_debug"}
      [] g = "tick" -> {"auto_update"}

InFrame(h, events) == \E k \in DOMAIN h.frame : h.frame[k] \in events

\* An action gated by g takes effect at `now` (call it before logging the
\* action): it comes too soon when an earlier frame's success lies less than
\* the gate's interval back.
Fired(h, g) ==
    [h EXCEPT !.since[g] = 0,
              !.fired[g] = Min(@ + 1, 2),
              !.too_soon[g] = @ \/ (~InFrame(h, GateEvents(g))
                                    /\ h.since[g] < Interval(g))]

Logged(h, e) == [h EXCEPT !.frame = Append(@, e)]

Count(seq, S) == Cardinality({i \in DOMAIN seq : seq[i] \in S})

\* ------------------------------------------------------------ rustycs_utility.rs
Body(kind, id, x, y) == [kind |-> kind, id |-> id, x |-> x, y |-> y]

BodySpawner_default ==
    [ body          |-> Body("default", 0, 0, 0),
      body_pipeline |-> << >>,
      amount        |-> 1,
      count         |-> 0,
      timer         |-> now,
      period        |-> ClockHz,
      t             |-> "Single",
      offset        |-> 0 ]

\* 1. / frequency_in_hz, in clock units
PeriodOf(frequency_in_hz) == ClockHz \div frequency_in_hz

new_single_type(body, amount, frequency_in_hz, offset) ==
    [BodySpawner_default EXCEPT !.body = body, !.amount = amount,
                                !.period = PeriodOf(frequency_in_hz),
                                !.offset = offset]

new_pipeline(body_pipeline, frequency_in_hz) ==
    [BodySpawner_default EXCEPT !.body_pipeline = body_pipeline,
                                !.period = PeriodOf(frequency_in_hz),
                                !.t = "Pipeline"]

\* rng.gen_range(-offset..offset): a value of the half-open range, picked by
\* the random draw r
gen_range(offset, r) == (r % (2 * offset)) - offset

\* BodySpawner::spawn taking the pipeline's first body instead of its last
BodySpawner_spawn_from_front(sp, rx, ry) ==
    IF sp.t = "Single"
    THEN [ spawner |-> [sp EXCEPT !.count = (@ + 1) % 256],
           body    |-> sp.body,
           panic   |-> FALSE ]
    ELSE IF sp.body_pipeline = << >>
         THEN [ spawner |-> sp, body |-> sp.body, panic |-> TRUE ]
         ELSE [ spawner |-> [sp EXCEPT !.body_pipeline = Tail(@)],
                body    |-> Head(sp.body_pipeline),
                panic   |-> FALSE ]

\* BodySpawner::spawn moving the prototype itself instead of a clone of it
BodySpawner_spawn_moving_prototype(sp, rx, ry) ==
    IF sp.t = "Single"
    THEN LET dx == IF sp.offset # 0 THEN gen_range(sp.offset, rx) ELSE 0
             dy == IF sp.offset # 0 THEN gen_range(sp.offset, ry) ELSE 0
             b == [sp.body EXCEPT !.x = @ + dx, !.y = @ + dy]
         IN  [ spawner |-> [sp EXCEPT !.count = (@ + 1) % 256, !.body = b],
               body    |-> b,
               panic   |-> FALSE ]
    ELSE IF sp.body_pipeline = << >>
         THEN [ spawner |-> sp, body |-> sp.body, panic |-> TRUE ]
         ELSE [ spawner |-> [sp EXCEPT !.body_pipeline =
                                  SubSeq(@, 1, Len(@) - 1)],
                body    |-> sp.body_pipeline[Len(sp.body_pipeline)],
                panic   |-> FALSE ]

\* BodySpawner::spawn starting over when the last body of a Single spawner
\* is out
BodySpawner_spawn_refilling(sp, rx, ry) ==
    IF sp.t = "Single"
    THEN [ spawner |-> [sp EXCEPT !.count = (@ + 1) % sp.amount],
           body    |-> sp.body,
           panic   |-> FALSE ]
    ELSE IF sp.body_pipeline = << >>
         THEN [ spawner |-> sp, body |-> sp.body, panic |-> TRUE ]
         ELSE [ spawner |-> [sp EXCEPT !.body_pipeline =
                                  SubSeq(@, 1, Len(@) - 1)],
                body    |-> sp.body_pipeline[Len(sp.body_pipeline)],
                panic   |-> FALSE ]

\* BodySpawner::spawn: the spawner afterwards, the body returned, and whether
\* the expect() on the popped body panicked. count is a u8; rx and ry are the
\* random draws of the two gen_range calls.
BodySpawner_spawn(sp, rx, ry) ==
    IF sp.t = "Single"
    THEN LET dx == IF sp.offset # 0 THEN gen_range(sp.offset, rx) ELSE 0
             dy == IF sp.offset # 0 THEN gen_range(sp.offset, ry) ELSE 0
         IN  [ spawner |-> [sp EXCEPT !.count = (@ + 1) % 256],
               body    |-> [sp.body EXCEPT !.x = @ + dx, !.y = @ + dy],
               panic   |-> FALSE ]
    ELSE IF sp.body_pipeline = << >>
         THEN [ spawner |-> sp, body |-> sp.body, panic |-> TRUE ]
         ELSE [ spawner |-> [sp EXCEPT !.body_pipeline =
                                  SubSeq(@, 1, Len(@) - 1)],
                body    |-> sp.body_pipeline[Len(sp.body_pipeline)],
                panic   |-> FALSE ]

\* is_spawnable of a Single spawner letting count reach past amount
BodySpawner_is_spawnable_inclusive(sp) ==
    [ self   |-> sp,
      result |-> IF sp.t = "Single"
                 THEN sp.count <= sp.amount /\ now - sp.timer >= sp.period
                 ELSE sp.body_pipeline # << >> /\ now - sp.timer >= sp.period ]

\* is_spawnable without the check of the count
BodySpawner_is_spawnable_no_count(sp) ==
    [ self   |-> sp,
      result |-> IF sp.t = "Single"
                 THEN now - sp.timer >= sp.period
                 ELSE sp.body_pipeline # << >> /\ now - sp.timer >= sp.period ]

\* is_spawnable restarting the timer when it answers true
BodySpawner_is_spawnable_restarting(sp) ==
    LET ok == IF sp.t = "Single"
              THEN sp.count < sp.amount /\ now - sp.timer >= sp.period
              ELSE sp.body_pipeline # << >> /\ now - sp.timer >= sp.period
    IN  [ self |-> IF ok THEN [sp EXCEPT !.timer = now] ELSE sp,
          result |-> ok ]

\* BodySpawner::is_spawnable(&mut self): what it returns, and the spawner as
\* it leaves it
BodySpawner_is_spawnable(sp) ==
    [ self   |-> sp,
      result |-> IF sp.t = "Single"
                 THEN sp.count < sp.amount /\ now - sp.timer >= sp.period
                 ELSE sp.body_pipeline # << >> /\ now - sp.timer >= sp.period ]

\* ------------------------------------------------------------ controller.rs
UserController_new ==
    [ active_actions |-> << >>, sampling_rate |-> sampling_rate,
      sampling_instant |-> now ]

IsHeld(held, key) == key \in held

\* detect_current_actions collecting the keys from the last to the first
detect_current_actions_reversed(ctl, held) ==
    IF now - ctl.sampling_instant >= ctl.sampling_rate
    THEN [ctl EXCEPT !.active_actions =
                         SelectSeq([k \in 1 .. Len(user_actions) |->
                                       user_actions[Len(user_actions) + 1 - k]],
                                   LAMBDA k : IsHeld(held, k)),
                     !.sampling_instant = now]
    ELSE [ctl EXCEPT !.active_actions = << >>]

\* UserController::detect_current_actions, with `held` the keys that are down
detect_current_actions(ctl, held) ==
    IF now - ctl.sampling_instant >= ctl.sampling_rate
    THEN [ctl EXCEPT !.active_actions =
                         SelectSeq(user_actions, LAMBDA k : IsHeld(held, k)),
                     !.sampling_instant = now]
    ELSE [ctl EXCEPT !.active_actions = << >>]

user_paused(held) == IsHeld(held, OPEN_MENU_AND_PAUSE)

SpawnedKind(action) ==
    CASE action = SPAWN_AABB -> "aabb"
      [] action = SPAWN_OBB -> "obb"
      [] action = SPAWN_CIRCLE -> "circle"
      [] action = SPAWN_POLYGON -> "polygon"

\* spawn_circle, spawn_aabb, spawn_obb, spawn_polygon: world.add_body of a
\* new body at the mouse position (the world's origin here)
spawn_body(c, action) ==
    [c EXCEPT !.world.bodies = Append(@, Body(SpawnedKind(action), 0, 0, 0)),
              !.added = TRUE,
              !.obs = Logged(Fired(Fired(@, "spawn"), "user_spawn"),
                             "user_add_body")]

\* spawn_attractor: world.add_attractor
spawn_attractor(c) ==
    [c EXCEPT !.world.attractors = @ + 1,
              !.added = TRUE,
              !.obs = Logged(Fired(Fired(@, "spawn"), "user_spawn"),
                             "user_add_attractor")]

camera(c) == [c EXCEPT !.obs = Logged(Fired(@, "spawn"), "camera")]

\* the WORLD_UPDATE arm without its check of the mode
manual_update_allowed_any_mode(s) == atomic_update_allowed(s)

\* the WORLD_UPDATE arm; d is the duration the world reports for the step
manual_update_allowed(s) == s.simulation = "Paused" /\ atomic_update_allowed(s)

\* the WORLD_UPDATE arm restarting the cooldown when it denies the step
world_update_action_extending(c, d) ==
    IF manual_update_allowed(c.state)
    THEN [c EXCEPT !.world.last_update_duration = d,
                   !.state.nr_of_updates = @ + 1,
                   !.state.update_instant = now,
                   !.obs = Logged(Fired(Fired(@, "spawn"), "update"),
                             "manual_update")]
    ELSE [c EXCEPT !.state.update_instant = now]

\* the WORLD_UPDATE arm without the increment of nr_of_updates
world_update_action_uncounted(c, d) ==
    IF manual_update_allowed(c.state)
    THEN [c EXCEPT !.world.last_update_duration = d,
                   !.state.update_instant = now,
                   !.obs = Logged(Fired(Fired(@, "spawn"), "update"),
                             "manual_update")]
    ELSE c

world_update_action(c, d) ==
    IF manual_update_allowed(c.state)
    THEN [c EXCEPT !.world.last_update_duration = d,
                   !.state.nr_of_updates = @ + 1,
                   !.state.update_instant = now,
                   !.obs = Logged(Fired(Fired(@, "spawn"), "update"),
                             "manual_update")]
    ELSE c

\* the flag a toggle key flips
ToggledFlag(any_toggle) ==
    CASE any_toggle = TOGGLE_TEXT -> "debug_information"
      [] any_toggle = TOGGLE_GRID -> "debug_grid"
      [] any_toggle = TOGGLE_COLLISION_POINTS -> "collision_points"
      [] any_toggle = TOGGLE_HITBOXES -> "hitboxes"
      [] OTHER -> "none"

\* the any_toggle arm without the reset of debug_instant
toggle_action_no_reset(c, any_toggle) ==
    IF debug_toggable(c.state) /\ ToggledFlag(any_toggle) # "none"
    THEN [c EXCEPT !.state[ToggledFlag(any_toggle)] = ShowDebug_toggle(@),
                   !.obs = Logged(Fired(Fired(@, "spawn"), "debug"),
                                  "toggle_debug")]
    ELSE c

\* the any_toggle arm
toggle_action(c, any_toggle) ==
    IF debug_toggable(c.state) /\ ToggledFlag(any_toggle) # "none"
    THEN [c EXCEPT !.state[ToggledFlag(any_toggle)] = ShowDebug_toggle(@),
                   !.state.debug_instant = now,
                   !.obs = Logged(Fired(Fired(@, "spawn"), "debug"),
                             "toggle_debug")]
    ELSE c

\* one iteration of the for loop of handle_current_actions
handle_action(c, action, d) ==
    CASE action \in {SPAWN_AABB, SPAWN_OBB, SPAWN_CIRCLE, SPAWN_POLYGON} ->
            spawn_body(c, action)
      [] action = SPAWN_ATTRACTOR -> spawn_attractor(c)
      [] action = ZOOM_CAMERA_OUT -> camera([c EXCEPT !.world.zoom = @ - 1])
      [] action = ZOOM_CAMERA_IN -> camera([c EXCEPT !.world.zoom = @ + 1])
      [] action = MOVE_CAMERA_LEFT -> camera([c EXCEPT !.offset_x = @ + 1])
      [] action = MOVE_CAMERA_UP -> camera([c EXCEPT !.offset_y = @ + 1])
      [] action = MOVE_CAMERA_RIGHT -> camera([c EXCEPT !.offset_x = @ - 1])
      [] action = MOVE_CAMERA_DOWN -> camera([c EXCEPT !.offset_y = @ - 1])
      [] action = RESET_CAMERA_POS ->
            camera([c EXCEPT !.offset_x = 0, !.offset_y = 0])
      [] action = WORLD_UPDATE -> world_update_action(c, d)
      [] OTHER -> toggle_action(c, action)

RECURSIVE handle_all(_, _, _)
handle_all(c, actions, d) ==
    IF actions = << >> THEN c
    ELSE handle_all(handle_action(c, Head(actions), d), Tail(actions), d)

\* handle_current_actions without the reset of spawn_instant
handle_current_actions_no_reset(c, actions, d) ==
    IF actions = << >> THEN c
    ELSE handle_all([c EXCEPT !.added = FALSE], actions, d)

\* UserController::handle_current_actions on the loop's locals
handle_current_actions(c, actions, d) ==
    IF actions = << >> THEN c
    ELSE LET r == handle_all([c EXCEPT !.added = FALSE], actions, d)
         IN  IF r.added THEN [r EXCEPT !.state.spawn_instant = now] ELSE r

\* ------------------------------------------------------------ main.rs
\* what one action did to the mode and to the debug flags, seen from outside
DebugFlags == {"debug_information", "debug_grid", "hitboxes", "collision_points"}

FlipsBetween(before, after) ==
    Cardinality({f \in DebugFlags : before[f] # after[f]})

FlipSeen(h, before, after) ==
    LET n == FlipsBetween(before, after)
        m == IF before.simulation = after.simulation
             THEN h
             ELSE [h EXCEPT !.since_flip = 0,
                            !.flips = Min(@ + 1, 2),
                            !.flip_too_soon = @ \/ h.since_flip < pause_timeout]
    IN  IF n = 0 THEN m
        ELSE [m EXCEPT !.since_debug_flip = 0,
                       !.debug_flips = Min(@ + n, 2),
                       !.debug_flip_too_soon =
                           @ \/ n > 1 \/ h.since_debug_flip < debug_timeout]

\* main.rs 65 without the check of the mode
auto_update_due_any_mode(s) == update_required(s)

\* main.rs 65: is an automatic step due
auto_update_due(s) == update_required(s) /\ s.simulation = "Running"

\* main.rs 65-69; d is the duration the world reports for the step
AutoStep(d) ==
    /\ pc = "step"
    /\ pc' = "spawners"
    /\ IF auto_update_due(state)
       THEN /\ world' = [world EXCEPT !.last_update_duration = d]
            /\ state' = [state EXCEPT !.nr_of_updates = @ + 1,
                                      !.tick_instant = now]
            /\ obs' = FlipSeen(Logged(Fired(obs, "tick"), "auto_update"),
                               state, state')
       ELSE UNCHANGED << world, state, obs >>
    /\ UNCHANGED << now, controller, spawners, offset_x, offset_y, keyboard >>

\* main.rs 71 without the check of the mode
spawners_polled_always(s) == TRUE

\* main.rs 71: are the spawners polled in this frame
spawners_polled(s) == s.simulation = "Running"

\* main.rs 73 without the check: spawn() is called on every spawner
spawn_called_unchecked(polled) == TRUE

\* main.rs 73: is spawn() called on the spawner, given what is_spawnable
\* returned
spawn_called(polled) == polled.result

\* an emission that leaves the spawner's timer as it was
timer_after_spawn_kept(sp) == sp.timer

\* main.rs 75: the spawner's timer after an emission
timer_after_spawn(sp) == now

\* what is remembered of one poll of spawner i: the spawner before and after
\* is_spawnable, what it returned, whether spawn() was called, and how many
\* bodies the spawner had emitted before
PollRecord(h, i, sp, polled, spawned) ==
    [ spawner |-> i, before |-> sp, after |-> polled.self,
      result |-> polled.result, spawned |-> spawned,
      elapsed |-> now - sp.timer, emitted_before |-> Len(h.emitted[i]) ]

Polled(h, i, sp, polled, spawned) ==
    [h EXCEPT !.polls = Append(@, PollRecord(h, i, sp, polled, spawned))]

EmissionSeen(h, i, body, period) ==
    [h EXCEPT !.emitted[i] = Append(@, body),
              !.emit_since[i] = 0,
              !.emit_too_soon[i] = @ \/ h.emit_since[i] < period]

\* main.rs 73-76 for spawner i; r[i] are the random draws of its spawn()
poll_spawner(p, i, r) ==
    LET sp == p.spawners[i]
        polled == BodySpawner_is_spawnable(sp)
    IN  IF p.panic THEN p
        ELSE IF ~spawn_called(polled)
        THEN [p EXCEPT !.spawners[i] = polled.self,
                       !.obs = Polled(@, i, sp, polled, FALSE)]
        ELSE LET res == BodySpawner_spawn(polled.self, r[i][1], r[i][2])
                 q == [p EXCEPT !.obs = Polled(@, i, sp, polled, TRUE)]
             IN  IF res.panic THEN [q EXCEPT !.panic = TRUE]
                 ELSE [q EXCEPT
                         !.world.bodies = Append(@, res.body),
                         !.spawners[i] =
                             [res.spawner EXCEPT !.timer = timer_after_spawn(sp)],
                         !.obs = Logged(EmissionSeen(@, i, res.body, sp.period),
                                        "spawner_add_body")]

RECURSIVE poll_from(_, _, _)
poll_from(p, i, r) ==
    IF i > Len(p.spawners) THEN p
    ELSE poll_from(poll_spawner(p, i, r), i + 1, r)

\* the random draws of one gen_range call
Draws == {0, 1}

\* main.rs 71-78
PollSpawners(r) ==
    /\ pc = "spawners"
    /\ LET p == IF spawners_polled(state)
                THEN poll_from([spawners |-> spawners, world |-> world,
                                obs |-> obs, panic |-> FALSE], 1, r)
                ELSE [spawners |-> spawners, world |-> world,
                      obs |-> obs, panic |-> FALSE]
       IN  /\ spawners' = p.spawners
           /\ world' = p.world
           /\ obs' = p.obs
           /\ pc' = IF p.panic THEN "panicked" ELSE "pause"
    /\ UNCHANGED << now, state, controller, offset_x, offset_y, keyboard >>

\* main.rs 80 without the check of the cooldown
pause_granted_no_cooldown(s, held) == user_paused(held)

\* main.rs 80: does the pause request succeed
pause_granted(s, held) == is_pausable(s) /\ user_paused(held)

\* main.rs 80-83; held are the keys that are down (only Escape is read)
PauseToggle(held) ==
    /\ pc = "pause"
    /\ pc' = "detect"
    /\ IF pause_granted(state, held)
       THEN /\ state' = [state EXCEPT
                           !.simulation = SimulationMode_toggle(@),
                           !.pause_instant = now]
            /\ obs' = FlipSeen(Logged(Fired([obs EXCEPT !.held = @ \cup held],
                                            "pause"), "toggle_pause"),
                               state, state')
       ELSE /\ state' = state
            /\ obs' = [obs EXCEPT !.held = @ \cup held]
    /\ UNCHANGED << now, controller, world, spawners, offset_x, offset_y, keyboard >>

\* main.rs 85; held are the keys that are down
DetectActions(held) ==
    /\ pc = "detect"
    /\ pc' = "handle"
    /\ controller' = detect_current_actions(controller, held)
    /\ obs' = [obs EXCEPT !.held = @ \cup held]
    /\ UNCHANGED << now, state, world, spawners, offset_x, offset_y, keyboard >>

\* main.rs 87 without the check of the spawn cooldown
actions_handled_ungated(ctl, s) == ctl.active_actions # << >>

\* main.rs 87: are the detected actions handled in this frame
actions_handled(ctl, s) == ctl.active_actions # << >> /\ is_spawnable(s)

\* main.rs 87-89; d is the duration the world reports for a manual step
HandleActions(d) ==
    /\ pc = "handle"
    /\ pc' = "render"
    /\ IF actions_handled(controller, state)
       THEN LET c == handle_current_actions(
                        [state |-> state, world |-> world, offset_x |-> offset_x,
                         offset_y |-> offset_y, added |-> FALSE, obs |-> obs],
                        controller.active_actions, d)
            IN  /\ state' = c.state
                /\ world' = c.world
                /\ offset_x' = c.offset_x
                /\ offset_y' = c.offset_y
                /\ obs' = FlipSeen(c.obs, state, c.state)
       ELSE UNCHANGED << state, world, offset_x, offset_y, obs >>
    /\ UNCHANGED << now, controller, spawners, keyboard >>

\* the benchmark keeping the last duration instead of the largest
render_info_and_benchmark_last(s, update_time) ==
    [s EXCEPT !.max_update_duration = update_time]

\* renderer.rs render_info_and_benchmark: the benchmark part
render_info_and_benchmark(s, update_time) ==
    IF s.max_update_duration < update_time
    THEN [s EXCEPT !.max_update_duration = update_time]
    ELSE s

\* main.rs 91-104
Render ==
    /\ pc = "render"
    /\ pc' = "next_frame"
    /\ IF state.debug_information = "Visible"
       THEN /\ state' = render_info_and_benchmark(state, world.last_update_duration)
            /\ obs' = FlipSeen(Logged(Logged(obs, "draw"), "benchmark"),
                               state, state')
       ELSE /\ state' = state
            /\ obs' = Logged(obs, "draw")
    /\ UNCHANGED << now, controller, world, spawners, offset_x, offset_y, keyboard >>

\* main.rs 106: next_frame().await; the frame took dt clock units
NextFrame(dt) ==
    /\ pc = "next_frame"
    /\ now + dt <= MaxTime
    /\ pc' = "step"
    /\ now' = now + dt
    /\ obs' = [obs EXCEPT
                 !.frame = << >>, !.polls = << >>, !.held = {},
                 !.since = [g \in Gates |-> Elapse(obs.since[g], dt, Interval(g))],
                 !.since_flip = Elapse(@, dt, pause_timeout),
                 !.since_debug_flip = Elapse(@, dt, debug_timeout),
                 !.emit_since = [i \in DOMAIN spawners |->
                                    Elapse(obs.emit_since[i], dt, spawners[i].period)]]
    /\ UNCHANGED << state, controller, world, spawners, offset_x, offset_y, keyboard >>

\* ------------------------------------------------------------ scenes and inputs
Proto == Body("proto", 0, 0, 0)

\* a pipeline as authored: body k is pushed k-th
Authored(n) == [k \in 1 .. n |-> Body("piped", k, 0, 0)]

\* frequency_in_hz of the spawners: periods of one and of two clock units
Frequencies == {ClockHz, ClockHz \div 2}

\* Single spawners that emit at the prototype's place
SingleScenes ==
    { << new_single_type(Proto, a, f, 0) >> :
        a \in 0 .. MaxAmount, f \in Frequencies }

\* a Single spawner with a jitter radius of one
JitterScenes == { << new_single_type(Proto, 2, ClockHz, 1) >> }

PipelineScenes ==
    { << new_pipeline(Authored(n), f) >> :
        n \in 0 .. MaxPipeline, f \in Frequencies }

MixedScenes ==
    { << new_single_type(Proto, 2, ClockHz, 0),
         new_pipeline(Authored(2), ClockHz \div 2) >> }

\* WorldFactory: the spawners of the scenes
Scenes == SingleScenes \cup JitterScenes \cup PipelineScenes \cup MixedScenes

\* the durations world.update() reports
SteadyDurations == {1}
VaryingDurations == {1, 2}

\* how long a frame takes
FrameTimes == {0, 1, 2, 3}

Chords(keys) == {h \in SUBSET keys : Cardinality(h) <= MaxHeld}

\* the keys the user touches in one run of the interactive scene
Keyboards ==
    { {OPEN_MENU_AND_PAUSE, WORLD_UPDATE},
      {OPEN_MENU_AND_PAUSE, WORLD_UPDATE, SPAWN_CIRCLE},
      {TOGGLE_TEXT, TOGGLE_GRID, TOGGLE_HITBOXES, TOGGLE_COLLISION_POINTS},
      {SPAWN_CIRCLE, SPAWN_ATTRACTOR, RESET_CAMERA_POS} }

\* the keys the user touches while a scene's spawners run
SceneKeyboards == { {OPEN_MENU_AND_PAUSE} }

\* the scenes in which the user spawns bodies too
PlayedScenes == MixedScenes

ObsInit(scene) ==
    [ frame         |-> << >>,
      polls         |-> << >>,
      held          |-> {},
      since         |-> [g \in Gates |-> Interval(g)],
      fired         |-> [g \in Gates |-> 0],
      too_soon      |-> [g \in Gates |-> FALSE],
      since_flip    |-> pause_timeout,
      flips         |-> 0,
      flip_too_soon |-> FALSE,
      since_debug_flip    |-> debug_timeout,
      debug_flips         |-> 0,
      debug_flip_too_soon |-> FALSE,
      authored      |-> [i \in DOMAIN scene |-> scene[i].body_pipeline],
      emitted       |-> [i \in DOMAIN scene |-> << >>],
      emit_since    |-> [i \in DOMAIN scene |-> scene[i].period],
      emit_too_soon |-> [i \in DOMAIN scene |-> FALSE] ]

\* main.rs 49-61 with the scene's spawners
Setup(scene, keys) ==
    /\ now = 0
    /\ pc = "step"
    /\ state = SimulationState_new(delta_time)
    /\ controller = UserController_new
    /\ world = [bodies |-> << >>, attractors |-> 0,
                last_update_duration |-> 0, zoom |-> 0]
    /\ spawners = scene
    /\ offset_x = 0
    /\ offset_y = 0
    /\ keyboard = keys
    /\ obs = ObsInit(scene)

\* the scene main.rs picks, demo_all_platforms, has no spawners
Init == \E keys \in Keyboards : Setup(<< >>, keys)

\* the scenes of the factory that have spawners
InitScene ==
    /\ now = 0
    /\ \/ \E scene \in Scenes, keys \in SceneKeyboards : Setup(scene, keys)
       \/ \E scene \in PlayedScenes : Setup(scene, {SPAWN_CIRCLE})

\* one iteration of the loop of main.rs, with the durations the world reports
Loop(durations) ==
    \/ \E d \in durations : AutoStep(d)
    \/ \E r \in [DOMAIN spawners -> Draws \X Draws] : PollSpawners(r)
    \/ \E esc \in SUBSET (keyboard \cap {OPEN_MENU_AND_PAUSE}) : PauseToggle(esc)
    \/ \E held \in Chords(keyboard \ {OPEN_MENU_AND_PAUSE}) : DetectActions(held)
    \/ \E d \in durations : HandleActions(d)
    \/ Render
    \/ \E dt \in FrameTimes : NextFrame(dt)

Next == Loop(SteadyDurations)

\* the interactive scene of main.rs
Spec == Init /\ [][Next]_vars

\* the scenes with spawners
SpecScene == InitScene /\ [][Next]_vars

\* every scene
SpecAll == (Init \/ InitScene) /\ [][Next]_vars

\* the keys the user touches while the step durations vary
BenchKeyboards == { {TOGGLE_TEXT, WORLD_UPDATE, OPEN_MENU_AND_PAUSE} }

InitBench == \E keys \in BenchKeyboards : Setup(<< >>, keys)

NextBench == Loop(VaryingDurations)

\* the interactive scene, with steps whose durations differ
SpecBench == InitBench /\ [][NextBench]_vars

\* Single spawners whose target count is at the end of the u8 range
FullScenes == { << new_single_type(Proto, a, ClockHz, 0) >> : a \in {254, 255} }

\* the time the frames of a long run take
LongFrameTimes == {1}

InitLong ==
    /\ now = 0
    /\ \E scene \in FullScenes : Setup(scene, {})

\* main.rs 106 in a long run
NextFrameLong(dt) ==
    /\ pc = "next_frame"
    /\ now + dt <= LongRun
    /\ pc' = "step"
    /\ now' = now + dt
    /\ obs' = [obs EXCEPT
                 !.frame = << >>, !.polls = << >>, !.held = {},
                 !.since = [g \in Gates |-> Elapse(obs.since[g], dt, Interval(g))],
                 !.since_flip = Elapse(@, dt, pause_timeout),
                 !.since_debug_flip = Elapse(@, dt, debug_timeout),
                 !.emit_since = [i \in DOMAIN spawners |->
                                    Elapse(obs.emit_since[i], dt, spawners[i].period)]]
    /\ UNCHANGED << state, controller, world, spawners, offset_x, offset_y, keyboard >>

\* the loop of main.rs left alone by the user for a long time
NextLong ==
    \/ \E d \in SteadyDurations : AutoStep(d)
    \/ \E r \in [DOMAIN spawners -> {<< 0, 0 >>}] : PollSpawners(r)
    \/ PauseToggle({})
    \/ DetectActions({})
    \/ \E d \in SteadyDurations : HandleActions(d)
    \/ Render
    \/ \E dt \in LongFrameTimes : NextFrameLong(dt)

\* a scene whose spawner runs until it is exhausted
SpecLong == InitLong /\ [][NextLong]_vars

\* the keys the user touches in a run that toggles several debug features
ToggleKeyboards ==
    { {TOGGLE_TEXT, TOGGLE_GRID, TOGGLE_HITBOXES, TOGGLE_COLLISION_POINTS},
      {TOGGLE_GRID, TOGGLE_COLLISION_POINTS, SPAWN_CIRCLE} }

InitToggle == \E keys \in ToggleKeyboards : Setup(<< >>, keys)

\* the interactive scene, with the debug toggles and a spawn key
SpecToggle == InitToggle /\ [][Next]_vars

\* the tick timeouts a state is constructed with, in clock units
TickTimeouts == 1 .. 8

\* no state has been constructed yet
InitNew ==
    /\ now = 0
    /\ pc = "construct"
    /\ state = SimulationState_default
    /\ controller = UserController_new
    /\ world = [bodies |-> << >>, attractors |-> 0,
                last_update_duration |-> 0, zoom |-> 0]
    /\ spawners = << >>
    /\ offset_x = 0
    /\ offset_y = 0
    /\ keyboard = {}
    /\ obs = [constructor |-> "none", tick_timeout |-> 0]

\* let state = SimulationState::new(tt)
ConstructNew(tt) ==
    /\ pc = "construct"
    /\ pc' = "constructed"
    /\ state' = SimulationState_new(tt)
    /\ obs' = [constructor |-> "new", tick_timeout |-> tt]
    /\ UNCHANGED << now, controller, world, spawners, offset_x, offset_y, keyboard >>

\* let state = SimulationState::default()
ConstructDefault ==
    /\ pc = "construct"
    /\ pc' = "constructed"
    /\ state' = SimulationState_default
    /\ obs' = [constructor |-> "default", tick_timeout |-> 0]
    /\ UNCHANGED << now, controller, world, spawners, offset_x, offset_y, keyboard >>

\* the state is dropped, and time passes before the next construction
Drop(dt) ==
    /\ pc = "constructed"
    /\ now + dt <= MaxTime
    /\ pc' = "construct"
    /\ now' = now + dt
    /\ UNCHANGED << state, controller, world, spawners, offset_x, offset_y,
                    keyboard, obs >>

NextNew ==
    \/ \E tt \in TickTimeouts : ConstructNew(tt)
    \/ ConstructDefault
    \/ \E dt \in FrameTimes : Drop(dt)

\* the constructors of SimulationState, called at any time
SpecNew == InitNew /\ [][NextNew]_vars

\* ------------------------------------------------------------ properties
Range(seq) == {seq[k] : k \in DOMAIN seq}

\* C1: pause debouncing. The mode never flips twice within pause_timeout:
\* however many frames in a row assert the pause key, every flip of the mode
\* comes at least pause_timeout after the flip before it (obs.flip_too_soon
\* is raised by the first flip that comes earlier).
C1_PauseDebounced == ~obs.flip_too_soon

\* the pause key is held in a frame inside the interval that follows a flip,
\* and the request was denied: the mode is still the one the flip left
C1_Witness ==
    /\ pc = "detect"
    /\ OPEN_MENU_AND_PAUSE \in obs.held
    /\ obs.flips = 1
    /\ 0 < obs.since_flip /\ obs.since_flip < pause_timeout
    /\ state.simulation = "Paused"

\* C2, as claimed: no gate lets an action through in a frame that comes less
\* than the gate's interval after a frame in which it let one through, the
\* spawn cooldown with all the actions it gates (camera, manual step, debug
\* toggle, user spawn) included, and no spawner emits twice within its period.
C2_EveryGateSpaced ==
    /\ \A g \in Gates : ~obs.too_soon[g]
    /\ \A i \in DOMAIN spawners : ~obs.emit_too_soon[i]

\* C2, amended: the pause, manual-step, debug and tick gates never let an
\* action through less than their interval after the last one; no spawner
\* emits twice within its period; and two frames in which the user spawns are
\* at least spawn_timeout apart. (The camera, manual-step and debug actions
\* wait for the spawn cooldown too, but do not reset it.)
C2_ResettingGatesSpaced ==
    /\ \A g \in Gates \ {"spawn"} : ~obs.too_soon[g]
    /\ \A i \in DOMAIN spawners : ~obs.emit_too_soon[i]

\* a gate has let a second action through, one interval after the first: the
\* second manual step, or the second user spawn, or a spawner's second body
C2_Witness ==
    \/ obs.fired["update"] = 2 /\ obs.since["update"] = 0
    \/ obs.fired["user_spawn"] = 2 /\ obs.since["user_spawn"] = 0
    \/ \E i \in DOMAIN spawners :
           Len(obs.emitted[i]) = 2 /\ obs.emit_since[i] = 0

\* the frame has applied a manual step
ManualStepApplied(h) == InFrame(h, {"manual_update"})

\* C3, as claimed: the frame's user actions apply a manual step if and only
\* if the WORLD_UPDATE key is down, the mode is Paused and update_timeout has
\* elapsed since update_instant.
C3_ManualStepIff ==
    [][ pc = "handle" =>
          ( ManualStepApplied(obs') <=>
              /\ WORLD_UPDATE \in obs.held
              /\ state.simulation = "Paused"
              /\ now - state.update_instant >= update_timeout ) ]_vars

\* C3, amended: the frame's user actions apply a manual step if and only if
\* WORLD_UPDATE is among the actions sampled in this frame, the mode is
\* Paused, update_timeout has elapsed since update_instant and spawn_timeout
\* has elapsed since spawn_instant; so never while the mode is Running.
C3_ManualStepIffHandled ==
    [][ pc = "handle" =>
          ( ManualStepApplied(obs') <=>
              /\ WORLD_UPDATE \in Range(controller.active_actions)
              /\ state.simulation = "Paused"
              /\ now - state.update_instant >= update_timeout
              /\ now - state.spawn_instant >= spawn_timeout ) ]_vars

\* a manual step has just been applied, in a run in which the user has
\* spawned (so the spawn cooldown has been reset at least once)
C3_Witness ==
    /\ pc = "render"
    /\ ManualStepApplied(obs)
    /\ state.simulation = "Paused"
    /\ state.update_instant = now
    /\ obs.fired["user_spawn"] >= 1

\* C4: no frame applies more than one physics step.
C4_OneStepPerFrame ==
    Count(obs.frame, {"auto_update", "manual_update"}) <= 1

\* C5: the four debug flags share one cooldown. No two flips of debug flags
\* are less than debug_timeout apart, whichever flags they are, and no frame
\* flips more than one flag (obs.debug_flip_too_soon is raised by the first
\* flip that breaks this).
C5_DebugFlipsSpaced == ~obs.debug_flip_too_soon

\* two toggle keys are held in a frame whose gate was open: a flag has
\* flipped in this frame
C5_Witness ==
    /\ pc = "render"
    /\ Cardinality(obs.held \cap {TOGGLE_TEXT, TOGGLE_GRID, TOGGLE_HITBOXES,
                                  TOGGLE_COLLISION_POINTS}) = 2
    /\ obs.since_debug_flip = 0
    /\ obs.debug_flips = 2

Reverse(seq) == [k \in 1 .. Len(seq) |-> seq[Len(seq) + 1 - k]]

PollsOf(i) == {p \in Range(obs.polls) : p.spawner = i}

\* after the spawner phase of a frame in which the mode is Running, spawner i
\* is not due: it has emitted in this frame, or its period has not elapsed
NotDue(i) ==
    (pc = "pause" /\ state.simulation = "Running")
        => now - spawners[i].timer < spawners[i].period

\* C6: a Single spawner with target count K never emits more than K bodies,
\* never two of them less than one period apart, misses no emission that is
\* due while it has emitted fewer than K, and is_spawnable returns false in
\* every poll that comes after the K-th emission.
C6_SingleEmitsAmount ==
    \A i \in DOMAIN spawners :
        spawners[i].t = "Single" =>
            /\ Len(obs.emitted[i]) <= spawners[i].amount
            /\ ~obs.emit_too_soon[i]
            /\ Len(obs.emitted[i]) < spawners[i].amount => NotDue(i)
            /\ \A p \in PollsOf(i) :
                   p.emitted_before >= p.before.amount => ~p.result

\* the scenario of the claim: target 3, period 0.1 s (two clock units), no
\* jitter; at 0.4 s all three bodies are out, the period has elapsed again
\* and is_spawnable returns false
C6_Witness ==
    /\ now = 8
    /\ \E p \in Range(obs.polls) :
           /\ p.before.t = "Single"
           /\ p.before.amount = 3
           /\ p.before.period = 2
           /\ p.before.offset = 0
           /\ p.emitted_before = 3
           /\ p.elapsed >= p.before.period
           /\ ~p.result

\* C7: a Pipeline spawner emits its authored bodies from the last to the
\* first: what it has emitted, reversed, is the tail of the authored
\* sequence and what remains is the head. It misses no emission that is due
\* while bodies remain, and is_spawnable returns false in every poll that
\* comes after the N-th emission.
C7_PipelineReversed ==
    \A i \in DOMAIN spawners :
        spawners[i].t = "Pipeline" =>
            /\ obs.authored[i] =
                   spawners[i].body_pipeline \o Reverse(obs.emitted[i])
            /\ Len(obs.emitted[i]) < Len(obs.authored[i]) => NotDue(i)
            /\ \A p \in PollsOf(i) :
                   p.emitted_before >= Len(obs.authored[i]) => ~p.result

\* a pipeline of three bodies is emitted, the third first, and the poll after
\* the last emission returns false although the period has elapsed
C7_Witness ==
    \E i \in DOMAIN spawners :
        /\ spawners[i].t = "Pipeline"
        /\ Len(obs.authored[i]) = 3
        /\ Len(obs.emitted[i]) = 3
        /\ [k \in 1 .. 3 |-> obs.emitted[i][k].id] = << 3, 2, 1 >>
        /\ \E p \in PollsOf(i) : p.elapsed >= p.before.period /\ ~p.result

\* C8: is_spawnable returns true exactly when the spawner is not exhausted
\* (Single: count < amount, Pipeline: bodies remain) and its period has
\* elapsed since its timer, and it leaves the spawner as it found it.
C8_IsSpawnable ==
    \A p \in Range(obs.polls) :
        /\ p.result <=>
               /\ IF p.before.t = "Single"
                  THEN p.before.count < p.before.amount
                  ELSE Len(p.before.body_pipeline) > 0
               /\ p.elapsed >= p.before.period
        /\ p.after = p.before

\* one frame polls two spawners whose period has elapsed: an exhausted one
\* (false) and one that is not (true)
C8_Witness ==
    \E p, q \in Range(obs.polls) :
        /\ p.elapsed >= p.before.period /\ ~p.result
        /\ q.elapsed >= q.before.period /\ q.result

\* C9: spawn() is called on a spawner only when is_spawnable has just
\* returned true for it; so the pop never finds the pipeline empty (the
\* expect() never panics) and a Single spawner's count is only incremented
\* below amount, and never exceeds it.
C9_SpawnOnlyWhenSpawnable ==
    /\ pc # "panicked"
    /\ \A p \in Range(obs.polls) :
           p.spawned =>
               /\ p.result
               /\ p.before.t = "Pipeline" => p.before.body_pipeline # << >>
               /\ p.before.t = "Single" => p.before.count < p.before.amount
    /\ \A i \in DOMAIN spawners :
           spawners[i].t = "Single" => spawners[i].count <= spawners[i].amount

\* spawn() has just popped the last body of a pipeline
C9_Witness ==
    \E p \in Range(obs.polls) :
        /\ p.spawned
        /\ p.before.t = "Pipeline"
        /\ Len(p.before.body_pipeline) = 1
        /\ spawners[p.spawner].body_pipeline = << >>

UserSpawned(h) == InFrame(h, {"user_add_body", "user_add_attractor"})

SpawnerEmitted(h) == InFrame(h, {"spawner_add_body"})

\* C10, as claimed: spawners emit only in frames in which the state's spawn
\* cooldown has elapsed, and every spawn, a spawner's or the user's, resets
\* spawn_instant to the time of the spawn.
C10_SpawnCooldownGatesSpawners ==
    [][ /\ (pc = "spawners" /\ SpawnerEmitted(obs')) =>
               /\ now - state.spawn_instant >= spawn_timeout
               /\ state'.spawn_instant = now
        /\ (pc = "handle" /\ UserSpawned(obs')) =>
               /\ now - state.spawn_instant >= spawn_timeout
               /\ state'.spawn_instant = now ]_vars

\* C10, amended: the state's spawn cooldown gates the user's spawns, and
\* only they reset it: the user spawns only in frames in which spawn_timeout
\* has elapsed since spawn_instant, every frame in which the user spawns
\* sets spawn_instant to its time, and nothing else changes spawn_instant;
\* the spawners emit whatever the cooldown says and leave it alone.
C10_SpawnCooldownGatesUser ==
    [][ /\ (pc = "handle" /\ UserSpawned(obs')) =>
               /\ now - state.spawn_instant >= spawn_timeout
               /\ state'.spawn_instant = now
        /\ state'.spawn_instant # state.spawn_instant =>
               (pc = "handle" /\ UserSpawned(obs')) ]_vars

\* a spawner emits in a frame in which the spawn cooldown, reset by a spawn
\* of the user, has not elapsed
C10_Witness ==
    /\ pc = "pause"
    /\ SpawnerEmitted(obs)
    /\ obs.fired["user_spawn"] >= 1
    /\ now - state.spawn_instant < spawn_timeout

Steps == {"auto_update", "manual_update"}

AutoStepApplied(h) == InFrame(h, {"auto_update"})

\* C11: the automatic step of a frame is applied only if the mode is Running
\* and tick_timeout has elapsed since the last automatic step (none is
\* applied while the mode is Paused, and no two automatic steps are less
\* than tick_timeout apart); a frame whose check finds no step due leaves the
\* state as it was.
C11_AutoStepOnlyWhenDue ==
    [][ /\ pc = "step" =>
              /\ AutoStepApplied(obs') =>
                     /\ state.simulation = "Running"
                     /\ now - state.tick_instant >= tick_timeout
                     /\ ~obs'.too_soon["tick"]
              /\ ~AutoStepApplied(obs') => state' = state
        /\ AutoStepApplied(obs') /\ ~AutoStepApplied(obs) => pc = "step" ]_vars

\* a frame in which the mode is Paused and the tick has long elapsed has
\* passed the step phase without a step
C11_Witness ==
    /\ pc = "spawners"
    /\ state.simulation = "Paused"
    /\ now - state.tick_instant >= 2 * tick_timeout
    /\ ~AutoStepApplied(obs)

\* C12: nr_of_updates is 0 at the start and counts the physics steps: every
\* action of the loop adds to it exactly the number of steps, automatic or
\* manual, that the action applied, so it never decreases and always equals
\* the number of steps applied so far.
C12_UpdatesCounted ==
    /\ state.nr_of_updates = 0
    /\ [][ /\ pc # "next_frame" =>
                 state'.nr_of_updates - state.nr_of_updates =
                     Count(obs'.frame, Steps) - Count(obs.frame, Steps)
           /\ pc = "next_frame" => state'.nr_of_updates = state.nr_of_updates
           /\ state'.nr_of_updates >= state.nr_of_updates ]_vars

\* three steps have been counted, the last of them a manual one in a frame
\* that had applied an automatic step too
C12_Witness ==
    /\ state.nr_of_updates = 3
    /\ Count(obs.frame, Steps) = 2

\* C13: max_update_duration is the running maximum of the step durations: at
\* the end of every frame that applied a physics step, automatic or manual,
\* max_update_duration is at least the duration the world reports for that
\* step, whatever the debug flags are.
C13_MaxCoversStep ==
    (pc = "next_frame" /\ InFrame(obs, Steps))
        => state.max_update_duration >= world.last_update_duration

\* C14: no action of the loop lowers max_update_duration.
C14_MaxNeverLowered ==
    [][ state'.max_update_duration >= state.max_update_duration ]_vars

\* the benchmark has run in a frame whose step was shorter than an earlier
\* one, and has kept the larger duration
C14_Witness ==
    /\ pc = "next_frame"
    /\ InFrame(obs, Steps)
    /\ InFrame(obs, {"benchmark"})
    /\ world.last_update_duration = 1
    /\ state.max_update_duration = 2

ToggleKeys ==
    {TOGGLE_TEXT, TOGGLE_GRID, TOGGLE_HITBOXES, TOGGLE_COLLISION_POINTS}

\* the flag of the feature a toggle key stands for
FeatureOf(key) ==
    CASE key = TOGGLE_TEXT -> "debug_information"
      [] key = TOGGLE_GRID -> "debug_grid"
      [] key = TOGGLE_HITBOXES -> "hitboxes"
      [] key = TOGGLE_COLLISION_POINTS -> "collision_points"

\* what the action just taken has added to the frame's log
NewEvents == SubSeq(obs'.frame, Len(obs.frame) + 1, Len(obs'.frame))

FirstToggle(actions) == Head(SelectSeq(actions, LAMBDA k : k \in ToggleKeys))

Flipped(v) == IF v = "Visible" THEN "Hidden" ELSE "Visible"

\* C15: when the user actions of a frame amount to one successful debug
\* toggle, for feature F, the state afterwards is the state before with F's
\* flag flipped (Visible <-> Hidden) and debug_instant set to the time of the
\* frame: the other three flags, the mode, nr_of_updates and the pause,
\* spawn, tick and update timers are as before.
C15_ToggleFlipsOneFlag ==
    [][ (pc = "handle" /\ NewEvents = << "toggle_debug" >>) =>
            LET F == FeatureOf(FirstToggle(controller.active_actions))
            IN  state' = [state EXCEPT ![F] = Flipped(@),
                                       !.debug_instant = now] ]_vars

\* the hitboxes have just been switched on, after the information overlay
\* had been switched off by an earlier toggle
C15_Witness ==
    /\ pc = "render"
    /\ InFrame(obs, {"toggle_debug"})
    /\ state.debug_instant = now
    /\ state.hitboxes = "Visible"
    /\ state.debug_information = "Hidden"

\* C16: every emission sets the emitting spawner's timer to the time of the
\* emission, also when it is the spawner's last; so no spawner emits twice
\* within its period, nor twice in one frame.
C16_EmissionResetsTimer ==
    /\ \A p \in Range(obs.polls) :
           p.spawned =>
               /\ spawners[p.spawner].timer = now
               /\ Len(obs.emitted[p.spawner]) = p.emitted_before + 1
    /\ \A i \in DOMAIN spawners :
           /\ ~obs.emit_too_soon[i]
           /\ Cardinality({k \in DOMAIN obs.polls :
                              obs.polls[k].spawner = i}) <= 1

\* a Single spawner has just emitted its last body, and its timer is the
\* time of that emission
C16_Witness ==
    \E p \in Range(obs.polls) :
        /\ p.spawned
        /\ p.before.t = "Single"
        /\ p.before.count = p.before.amount - 1
        /\ p.before.timer < now
        /\ spawners[p.spawner].count = spawners[p.spawner].amount
        /\ spawners[p.spawner].timer = now

Exhausted(sp) ==
    IF sp.t = "Single" THEN sp.count >= sp.amount ELSE Len(sp.body_pipeline) = 0

\* C17: exhaustion is terminal. No action of the loop lowers a Single
\* spawner's count, changes its amount, lengthens a pipeline or changes a
\* spawner's kind; an exhausted spawner is exhausted after every action.
C17_ExhaustionTerminal ==
    [][ /\ DOMAIN spawners' = DOMAIN spawners
        /\ \A i \in DOMAIN spawners :
               /\ spawners'[i].t = spawners[i].t
               /\ spawners'[i].amount = spawners[i].amount
               /\ spawners'[i].count >= spawners[i].count
               /\ Len(spawners'[i].body_pipeline) <= Len(spawners[i].body_pipeline)
               /\ Exhausted(spawners[i]) => Exhausted(spawners'[i]) ]_vars

\* a spawner that had bodies to emit is exhausted, and is polled again two
\* periods after its last emission
C17_Witness ==
    \E p \in Range(obs.polls) :
        /\ Exhausted(p.before)
        /\ p.emitted_before >= 2
        /\ p.elapsed >= 2 * p.before.period
        /\ Exhausted(spawners[p.spawner])

FlagsOf(s) == [f \in DebugFlags |-> s[f]]

PauseCooldownElapsed == now - state.pause_instant >= pause_timeout

UpdateGateOpen ==
    state.simulation = "Paused" /\ now - state.update_instant >= update_timeout

DebugCooldownElapsed == now - state.debug_instant >= debug_timeout

\* a denied pause request leaves the whole state as it is
PauseDenialHarmless ==
    (pc = "pause" /\ OPEN_MENU_AND_PAUSE \in obs'.held /\ ~PauseCooldownElapsed)
        => state' = state

\* a denied manual-step request changes neither the mode, nr_of_updates nor
\* update_instant, nor a debug flag unless a toggle succeeds beside it
StepDenialHarmless ==
    (pc = "handle" /\ WORLD_UPDATE \in obs.held /\ ~UpdateGateOpen) =>
        /\ state'.simulation = state.simulation
        /\ state'.nr_of_updates = state.nr_of_updates
        /\ state'.update_instant = state.update_instant
        /\ "toggle_debug" \notin Range(NewEvents) => FlagsOf(state') = FlagsOf(state)

\* a denied debug-toggle request changes neither a debug flag, debug_instant
\* nor the mode, nor nr_of_updates unless a manual step succeeds beside it
ToggleDenialHarmless ==
    (pc = "handle" /\ obs.held \cap ToggleKeys # {} /\ ~DebugCooldownElapsed) =>
        /\ FlagsOf(state') = FlagsOf(state)
        /\ state'.debug_instant = state.debug_instant
        /\ state'.simulation = state.simulation
        /\ "manual_update" \notin Range(NewEvents) =>
               state'.nr_of_updates = state.nr_of_updates

\* the actions of the frame are handled: the spawn cooldown has elapsed
Handled(key) ==
    /\ key \in Range(controller.active_actions)
    /\ now - state.spawn_instant >= spawn_timeout

\* C18, as claimed: a denied pause, manual-step or debug-toggle request has
\* no effect, and a request that arrives in a frame in which its gate is
\* open (the pause cooldown elapsed; Paused and the update cooldown elapsed;
\* the debug cooldown elapsed) succeeds.
C18_DeniedNoEffectRetrySucceeds ==
    [][ /\ PauseDenialHarmless
        /\ StepDenialHarmless
        /\ ToggleDenialHarmless
        /\ (pc = "pause" /\ OPEN_MENU_AND_PAUSE \in obs'.held
                /\ PauseCooldownElapsed)
               => state'.simulation # state.simulation
        /\ (pc = "handle" /\ WORLD_UPDATE \in obs.held /\ UpdateGateOpen)
               => "manual_update" \in Range(NewEvents)
        /\ (pc = "handle" /\ obs.held \cap ToggleKeys # {}
                /\ DebugCooldownElapsed)
               => "toggle_debug" \in Range(NewEvents) ]_vars

\* C18, amended: a denied pause, manual-step or debug-toggle request has no
\* effect (the cooldown is not extended). A pause request succeeds in every
\* frame in which the pause cooldown has elapsed; a manual-step or
\* debug-toggle request succeeds in every frame in which its own gate is
\* open, the controller has sampled the key and the spawn cooldown has
\* elapsed too.
C18_DeniedNoEffectRetryHandled ==
    [][ /\ PauseDenialHarmless
        /\ StepDenialHarmless
        /\ ToggleDenialHarmless
        /\ (pc = "pause" /\ OPEN_MENU_AND_PAUSE \in obs'.held
                /\ PauseCooldownElapsed)
               => state'.simulation # state.simulation
        /\ (pc = "handle" /\ Handled(WORLD_UPDATE) /\ UpdateGateOpen)
               => "manual_update" \in Range(NewEvents)
        /\ (pc = "handle" /\ (\E k \in ToggleKeys : Handled(k))
                /\ DebugCooldownElapsed)
               => "toggle_debug" \in Range(NewEvents) ]_vars

\* a manual step has been requested and denied inside the cooldown of an
\* earlier one: update_instant is still the time of that step
C18_Witness ==
    /\ pc = "render"
    /\ WORLD_UPDATE \in obs.held
    /\ state.simulation = "Paused"
    /\ obs.fired["update"] = 1
    /\ ~ManualStepApplied(obs)
    /\ 0 < now - state.update_instant
    /\ now - state.update_instant < update_timeout

PauseRequested == pc = "pause" /\ OPEN_MENU_AND_PAUSE \in obs'.held

\* C19: the pause scenario, with pause_timeout = 0.25 s (five clock units)
\* and the state constructed at time 0. The first pause request, at time 0,
\* toggles the mode to Paused; a request at 0.1 s after that toggle leaves
\* the mode Paused; a request made once the interval since that toggle is
\* over toggles the mode back to Running.
C19_PauseScenario ==
    [][ PauseRequested =>
          /\ (now = 0 /\ obs.flips = 0) => state'.simulation = "Paused"
          /\ (now = 2 /\ obs.flips = 1 /\ obs.since_flip = 2)
                 => state'.simulation = "Paused"
          /\ (now = pause_timeout /\ obs.flips = 1
                  /\ obs.since_flip = pause_timeout)
                 => state'.simulation = "Running" ]_vars

\* C20: the mode changes only by a successful pause toggle: an action of the
\* loop changes it only if it is the pause phase of a frame in which the
\* pause key is down and pause_timeout has elapsed since pause_instant.
C20_ModeChangesOnlyByPause ==
    [][ state'.simulation # state.simulation =>
            /\ pc = "pause"
            /\ OPEN_MENU_AND_PAUSE \in obs'.held
            /\ now - state.pause_instant >= pause_timeout ]_vars

\* a frame has spawned a body and applied a manual step, with the pause key
\* down inside the pause cooldown: the mode is still Paused
C20_Witness ==
    /\ pc = "next_frame"
    /\ OPEN_MENU_AND_PAUSE \in obs.held
    /\ InFrame(obs, {"user_add_body"})
    /\ InFrame(obs, {"manual_update"})
    /\ ~InFrame(obs, {"toggle_pause"})
    /\ state.simulation = "Paused"

\* C21: a SimulationState that has just been constructed, by new or by
\* default, has mode Running, the information overlay Visible, collision
\* points, hitboxes and grid Hidden, nr_of_updates = 0 and
\* max_update_duration = 0; the one constructed by new(tick_timeout) has the
\* tick_timeout given and is in every other field the default state.
C21_FreshState ==
    pc = "constructed" =>
        /\ state.simulation = "Running"
        /\ state.debug_information = "Visible"
        /\ state.collision_points = "Hidden"
        /\ state.hitboxes = "Hidden"
        /\ state.debug_grid = "Hidden"
        /\ state.nr_of_updates = 0
        /\ state.max_update_duration = 0
        /\ obs.constructor = "new" =>
               /\ state.tick_timeout = obs.tick_timeout
               /\ \A f \in DOMAIN state \ {"tick_timeout"} :
                      state[f] = SimulationState_default[f]

\* new(3) has been called some time after the start: the state's
\* tick_timeout is 3, not the default's
C21_Witness ==
    /\ pc = "constructed"
    /\ now > 0
    /\ obs.constructor = "new"
    /\ obs.tick_timeout = 3
    /\ state.tick_timeout = 3
    /\ state.tick_timeout # SimulationState_default.tick_timeout

Insertions == {"spawner_add_body", "user_add_body", "user_add_attractor"}

\* the place of an event in the order step, insertion, draw (0: none)
CollaboratorRank(e) ==
    CASE e \in Steps -> 1
      [] e \in Insertions -> 2
      [] e = "draw" -> 3
      [] OTHER -> 0

\* the place of an event in the order automatic step, spawner insertion,
\* user insertion, manual step, draw (0: none)
PhaseRank(e) ==
    CASE e = "auto_update" -> 1
      [] e = "spawner_add_body" -> 2
      [] e \in {"user_add_body", "user_add_attractor"} -> 3
      [] e = "manual_update" -> 4
      [] e = "draw" -> 5
      [] OTHER -> 0

\* after the draw call nothing changes the world
WorldLeftAfterDraw == pc \in {"render", "next_frame"} => world' = world

\* C22, as claimed: in every frame the physics steps come first, then the
\* insertions of entities, then the draw: no step follows an insertion of
\* the same frame, and nothing changes the world once it has been drawn.
C22_StepInsertDraw ==
    [][ /\ \A i, j \in DOMAIN obs'.frame :
               (i < j /\ CollaboratorRank(obs'.frame[i]) # 0
                      /\ CollaboratorRank(obs'.frame[j]) # 0)
                   => CollaboratorRank(obs'.frame[i])
                          <= CollaboratorRank(obs'.frame[j])
        /\ WorldLeftAfterDraw ]_vars

\* C22, amended: in every frame the automatic step comes first, then the
\* spawners' insertions, then the user's insertions, then the manual step,
\* then the draw (each if any): a manual step can follow an insertion of the
\* same frame, an automatic step cannot, and nothing changes the world once
\* it has been drawn.
C22_AutoInsertManualDraw ==
    [][ /\ \A i, j \in DOMAIN obs'.frame :
               (i < j /\ PhaseRank(obs'.frame[i]) # 0
                      /\ PhaseRank(obs'.frame[j]) # 0)
                   => \/ PhaseRank(obs'.frame[i]) < PhaseRank(obs'.frame[j])
                      \/ /\ PhaseRank(obs'.frame[i]) = PhaseRank(obs'.frame[j])
                         /\ obs'.frame[i] \in Insertions
        /\ WorldLeftAfterDraw ]_vars

\* a frame has applied the automatic step, inserted a body for the user,
\* applied the manual step and drawn the world, in this order
C22_Witness ==
    /\ pc = "next_frame"
    /\ SelectSeq(obs.frame, LAMBDA e : PhaseRank(e) # 0)
           = << "auto_update", "user_add_body", "manual_update", "draw" >>

Abs(n) == IF n < 0 THEN 0 - n ELSE n

\* C23: a Single spawner's emission is a clone of its prototype, which no
\* action changes. With offset = 0 every emitted body is the prototype, at
\* its exact location; with offset > 0 every emitted body, the first as the
\* last, is the prototype moved by at most offset in x and in y.
C23_CloneOfPrototype ==
    [][ \A i \in DOMAIN spawners :
            spawners[i].t = "Single" =>
                /\ spawners'[i].body = spawners[i].body
                /\ \A k \in DOMAIN obs'.emitted[i] :
                       LET e == obs'.emitted[i][k]
                           proto == spawners[i].body
                       IN  /\ [e EXCEPT !.x = proto.x, !.y = proto.y] = proto
                           /\ Abs(e.x - proto.x) <= spawners[i].offset
                           /\ Abs(e.y - proto.y) <= spawners[i].offset ]_vars

\* a spawner with offset 1 has emitted two bodies: the first a full offset
\* away from the prototype, the second at the prototype's place
C23_Witness ==
    \E i \in DOMAIN spawners :
        /\ spawners[i].t = "Single"
        /\ spawners[i].offset = 1
        /\ Len(obs.emitted[i]) = 2
        /\ Abs(obs.emitted[i][1].x - spawners[i].body.x) = 1
        /\ obs.emitted[i][2].x = spawners[i].body.x
        /\ obs.emitted[i][2].y = spawners[i].body.y

\* C24: the spawners are polled only while the mode is Running. The spawner
\* phase of a frame in which the mode is Paused polls no spawner, emits
\* nothing and leaves every spawner as it is, and no other phase of a frame
\* changes a spawner.
C24_PausedSpawnersIdle ==
    [][ /\ (pc = "spawners" /\ state.simulation = "Paused") =>
               /\ spawners' = spawners
               /\ obs'.polls = obs.polls
               /\ obs'.emitted = obs.emitted
               /\ world'.bodies = world.bodies
        /\ spawners' # spawners =>
               (pc = "spawners" /\ state.simulation = "Running") ]_vars

\* the spawner phase of a Paused frame is over: a spawner that has bodies
\* left, and whose period has elapsed twice, has not been polled
C24_Witness ==
    /\ pc = "pause"
    /\ state.simulation = "Paused"
    /\ obs.polls = << >>
    /\ \E i \in DOMAIN spawners :
           /\ ~Exhausted(spawners[i])
           /\ Len(obs.emitted[i]) >= 1
           /\ now - spawners[i].timer >= 2 * spawners[i].period

\* C25: every user action waits for the spawn cooldown. In a frame in which
\* spawn_timeout has not elapsed since spawn_instant, and so in every frame
\* that follows a user spawn by less than spawn_timeout, the user actions
\* have no effect at all, whatever their own cooldowns say; and spawn_instant
\* is changed only by a frame in which the user spawns.
C25_SpawnCooldownGatesAllActions ==
    [][ /\ (pc = "handle" /\ now - state.spawn_instant < spawn_timeout) =>
               /\ NewEvents = << >>
               /\ state' = state
               /\ world' = world
               /\ offset_x' = offset_x /\ offset_y' = offset_y
        /\ (pc = "handle" /\ obs.fired["user_spawn"] >= 1
                /\ obs.since["user_spawn"] < spawn_timeout) =>
               NewEvents = << >>
        /\ state'.spawn_instant # state.spawn_instant =>
               /\ pc = "handle"
               /\ UserSpawned(obs')
               /\ state'.spawn_instant = now ]_vars

\* 0.1 s after a user spawn the manual step is requested and sampled, the
\* mode is Paused and the update cooldown has elapsed: no step is applied
C25_Witness ==
    /\ pc = "render"
    /\ WORLD_UPDATE \in Range(controller.active_actions)
    /\ state.simulation = "Paused"
    /\ now - state.update_instant >= update_timeout
    /\ obs.fired["user_spawn"] >= 1
    /\ obs.since["user_spawn"] = 2
    /\ obs.frame = << >>

\* the least time after construction at which an event of the log can
\* happen, if every gate starts closed
EarliestAfterStart(e) ==
    CASE e = "toggle_pause" -> pause_timeout
      [] e = "toggle_debug" -> debug_timeout
      [] e = "manual_update" -> update_timeout
      [] e \in {"user_add_body", "user_add_attractor", "camera"} -> spawn_timeout
      [] e = "auto_update" -> delta_time
      [] OTHER -> 0

\* C26: every gate starts closed. The state and the spawners are constructed
\* at time 0, and nothing gated happens before its interval has elapsed once:
\* no pause toggle, debug toggle or manual step before 0.25 s, no user action
\* before 0.15 s, no automatic step before one tick, and no emission of a
\* spawner before its period.
C26_GatesStartClosed ==
    /\ \A k \in DOMAIN obs.frame : now >= EarliestAfterStart(obs.frame[k])
    /\ \A i \in DOMAIN spawners :
           obs.emitted[i] # << >> => now >= spawners[i].period

\* the first pause toggle happens exactly 0.25 s after construction, in a
\* scene whose spawner emitted its first body exactly one period after it
C26_Witness ==
    /\ pc = "detect"
    /\ now = pause_timeout
    /\ InFrame(obs, {"toggle_pause"})
    /\ obs.flips = 1
    /\ \E i \in DOMAIN spawners :
           /\ Len(obs.emitted[i]) = 2
           /\ spawners[i].period = 2
           /\ spawners[i].timer = 2 * spawners[i].period

\* C27: for a Single spawner, 0 <= count <= amount <= 255 in every reachable
\* state, and an action of the loop leaves count as it is or adds one to it:
\* the u8 increment in spawn() never wraps around.
C27_CountWithinU8 ==
    /\ [](\A i \in DOMAIN spawners :
             spawners[i].t = "Single" =>
                 /\ 0 <= spawners[i].count
                 /\ spawners[i].count <= spawners[i].amount
                 /\ spawners[i].amount <= 255)
    /\ [][ \A i \in DOMAIN spawners :
               spawners[i].t = "Single" =>
                   \/ spawners'[i].count = spawners[i].count
                   \/ spawners'[i].count = spawners[i].count + 1 ]_vars

\* a spawner with the largest target count, 255, has emitted all its bodies
\* and is polled again: is_spawnable returns false
C27_Witness ==
    \E p \in Range(obs.polls) :
        /\ p.before.t = "Single"
        /\ p.before.amount = 255
        /\ p.before.count = 255
        /\ p.emitted_before = 255
        /\ p.elapsed >= p.before.period
        /\ ~p.result

\* the order of the debug features: information overlay, grid, hitboxes,
\* collision points
ToggleOrder ==
    << TOGGLE_TEXT, TOGGLE_GRID, TOGGLE_HITBOXES, TOGGLE_COLLISION_POINTS >>

FirstInOrder(keys) == Head(SelectSeq(ToggleOrder, LAMBDA k : k \in keys))

\* exactly the flag of the first of the keys flips, and the debug cooldown
\* is reset
FirstOfKeysFlips(keys) ==
    /\ FlagsOf(state') =
           [FlagsOf(state) EXCEPT ![FeatureOf(FirstInOrder(keys))] = Flipped(@)]
    /\ state'.debug_instant = now

\* C28, as claimed: when two or more toggle keys are down in a frame in
\* which the debug cooldown has elapsed, exactly one flag flips, the one of
\* the key that comes first in the order overlay, grid, hitboxes, collision
\* points, and the cooldown is reset.
C28_FirstToggleWins ==
    [][ (pc = "handle" /\ Cardinality(obs.held \cap ToggleKeys) >= 2
             /\ DebugCooldownElapsed)
            => FirstOfKeysFlips(obs.held \cap ToggleKeys) ]_vars

\* C28, amended: when two or more toggle keys are among the actions the
\* controller has sampled for a frame in which the debug cooldown and the
\* spawn cooldown have elapsed, exactly one flag flips, the one of the key
\* that comes first in the order overlay, grid, hitboxes, collision points,
\* and the cooldown is reset; in a frame in which the keys are not sampled
\* or the spawn cooldown has not elapsed no flag flips.
C28_FirstHandledToggleWins ==
    [][ pc = "handle" =>
          LET keys == Range(controller.active_actions) \cap ToggleKeys
          IN  /\ (Cardinality(keys) >= 2 /\ DebugCooldownElapsed
                      /\ now - state.spawn_instant >= spawn_timeout)
                     => FirstOfKeysFlips(keys)
              /\ (keys = {} \/ now - state.spawn_instant < spawn_timeout)
                     => FlagsOf(state') = FlagsOf(state) ]_vars

\* the grid and the collision-point keys were down together in a frame that
\* was handled, after the user had spawned: the grid is shown, the collision
\* points are not
C28_Witness ==
    /\ pc = "render"
    /\ {TOGGLE_GRID, TOGGLE_COLLISION_POINTS} \subseteq obs.held
    /\ InFrame(obs, {"toggle_debug"})
    /\ obs.fired["user_spawn"] >= 1
    /\ state.debug_instant = now
    /\ state.debug_grid = "Visible"
    /\ state.collision_points = "Hidden"

====
